---- MODULE Spec2Model ----
(***************************************************************************)
(* A model of src/src/main.rs: the two request handlers of the TIOBE       *)
(* ranking service (get_languages, get_language_info), the retrieval and   *)
(* table extraction they share (fetch_tiobe_data), the built-in snapshot   *)
(* (get_fallback_data) and the descriptive lookup (get_language_detail).   *)
(*                                                                         *)
(* Text that the code trims, lowercases, parses or compares is a sequence  *)
(* of ASCII codes (the comment beside each literal gives its text), so     *)
(* that these operations are computed character by character.  The         *)
(* descriptions, use cases and frameworks never pass through a string      *)
(* operation and are strings; those of them that are not ASCII in the      *)
(* source are written "description@<line>" or "item@<line>.<position>",    *)
(* naming the source line of the literal.                                  *)
(***************************************************************************)
EXTENDS Integers, Sequences, FiniteSets, TLC

VARIABLES
  now,        \* the UTC clock, <<year, month, day>>
  req,        \* the last request handled: [op, name, year, month]
  at,         \* the clock value that request's handler read (Utc::now())
  upstream,   \* what the upstream had to offer that request
  sent,       \* the URLs that request's handler issued a GET for
  fetched,    \* whether fetch_tiobe_data returned Ok
  parsed,     \* the parser's vector before the is_empty test (line 115)
  languages,  \* the ranking list the handler served or searched
  status,     \* the HTTP status of the handler's reply
  detail,     \* the LanguageDetail replied, <<>> or <<record>>
  pair        \* history: how that request relates to the one before it

vars == <<now, req, at, upstream, sent, fetched, parsed, languages, status,
          detail, pair>>

----------------------------------------------------------------------------
(* Bounds of the model *)

\* The longest table body (number of tr rows) the upstream delivers.
MaxRows == 2

----------------------------------------------------------------------------
(* Text *)

\* char::to_lowercase on the ASCII range: 'A'..'Z' (65..90) map to
\* 'a'..'z' (97..122), every other character is kept.
char_to_lowercase(c) == IF c >= 65 /\ c <= 90 THEN c + 32 ELSE c

\* str::to_lowercase
to_lowercase(s) == [i \in 1..Len(s) |-> char_to_lowercase(s[i])]

\* char::is_whitespace on the characters the model uses
is_whitespace(c) == c \in {32, 9, 10, 13}

\* str::trim_start and str::trim_end
RECURSIVE trim_start(_)
trim_start(s) ==
  IF s # <<>> /\ is_whitespace(Head(s)) THEN trim_start(Tail(s)) ELSE s

RECURSIVE trim_end(_)
trim_end(s) ==
  IF s # <<>> /\ is_whitespace(s[Len(s)])
  THEN trim_end(SubSeq(s, 1, Len(s) - 1))
  ELSE s

\* str::trim: the text without its leading and trailing whitespace
trim(s) == trim_end(trim_start(s))

I32Max == 2147483647

\* char::to_digit(10): '0'..'9' are 48..57
IsDigit(c) == c >= 48 /\ c <= 57

DigitValue(c) == c - 48

\* The checked accumulation of i32::from_str: digits are added for a
\* non-negative number and subtracted for a negative one, and the parse fails
\* on the first step that leaves the i32 range.
RECURSIVE Accumulate(_, _, _)
Accumulate(ds, acc, negative) ==
  IF ds = <<>> THEN [ok |-> TRUE, value |-> acc]
  ELSE IF ~IsDigit(Head(ds)) THEN [ok |-> FALSE, value |-> 0]
  ELSE LET d == DigitValue(Head(ds))
       IN  IF negative
           THEN IF acc < (-I32Max - 1 + d) \div 10 + (IF (-I32Max - 1 + d) % 10 = 0 THEN 0 ELSE 1)
                THEN [ok |-> FALSE, value |-> 0]
                ELSE Accumulate(Tail(ds), acc * 10 - d, negative)
           ELSE IF acc > (I32Max - d) \div 10
                THEN [ok |-> FALSE, value |-> 0]
                ELSE Accumulate(Tail(ds), acc * 10 + d, negative)

\* str::parse::<i32>: an optional sign followed by at least one digit.
parse_i32(s) ==
  IF s = <<>> THEN [ok |-> FALSE, value |-> 0]
  ELSE IF Head(s) \in {43, 45}
       THEN IF Len(s) = 1 THEN [ok |-> FALSE, value |-> 0]
            ELSE Accumulate(Tail(s), 0, Head(s) = 45)
       ELSE Accumulate(s, 0, FALSE)

\* .trim().parse().unwrap_or(0)
parse_or_zero(text) ==
  LET r == parse_i32(trim(text)) IN IF r.ok THEN r.value ELSE 0

----------------------------------------------------------------------------
(* Data *)

\* struct Language
Language(rank, prev_rank, name, rating, change) ==
  [rank |-> rank, prev_rank |-> prev_rank, name |-> name,
   rating |-> rating, change |-> change]

\* Option<i32>: None is <<>>, Some(v) is <<v>>.
None == <<>>

Some(v) == <<v>>

\* "N/A".to_string()
NotAvailable == <<78,47,65>>  \* "N/A"

\* get_fallback_data (lines 122-145)
get_fallback_data ==
  <<
    Language(1, 1, <<80,121,116,104,111,110>>,  \* "Python"
             <<50,51,46,54,52,37>>, <<45,48,46,50,49,37>>),  \* "23.64%" "-0.21%"
    Language(2, 4, <<67>>,  \* "C"
             <<49,48,46,49,49,37>>, <<43,49,46,48,49,37>>),  \* "10.11%" "+1.01%"
    Language(3, 2, <<67,43,43>>,  \* "C++"
             <<56,46,57,53,37>>, <<45,49,46,56,55,37>>),  \* "8.95%" "-1.87%"
    Language(4, 3, <<74,97,118,97>>,  \* "Java"
             <<56,46,55,48,37>>, <<45,49,46,48,50,37>>),  \* "8.70%" "-1.02%"
    Language(5, 5, <<67,35>>,  \* "C#"
             <<55,46,50,54,37>>, <<43,50,46,51,57,37>>),  \* "7.26%" "+2.39%"
    Language(6, 6, <<74,97,118,97,83,99,114,105,112,116>>,  \* "JavaScript"
             <<50,46,57,54,37>>, <<45,49,46,54,54,37>>),  \* "2.96%" "-1.66%"
    Language(7, 9, <<86,105,115,117,97,108,32,66,97,115,105,99>>,  \* "Visual Basic"
             <<50,46,56,49,37>>, <<43,48,46,56,53,37>>),  \* "2.81%" "+0.85%"
    Language(8, 8, <<83,81,76>>,  \* "SQL"
             <<50,46,49,48,37>>, <<43,48,46,49,49,37>>),  \* "2.10%" "+0.11%"
    Language(9, 26, <<80,101,114,108>>,  \* "Perl"
             <<49,46,57,55,37>>, <<43,49,46,51,51,37>>),  \* "1.97%" "+1.33%"
    Language(10, 16, <<82>>,  \* "R"
             <<49,46,57,54,37>>, <<43,48,46,57,49,37>>),  \* "1.96%" "+0.91%"
    Language(11, 11, <<68,101,108,112,104,105,47,79,98,106,101,99,116,32,80,97,115,99,97,108>>,  \* "Delphi/Object Pascal"
             <<49,46,57,49,37>>, <<43,48,46,52,56,37>>),  \* "1.91%" "+0.48%"
    Language(12, 10, <<70,111,114,116,114,97,110>>,  \* "Fortran"
             <<49,46,54,48,37>>, <<45,48,46,49,56,37>>),  \* "1.60%" "-0.18%"
    Language(13, 15, <<77,65,84,76,65,66>>,  \* "MATLAB"
             <<49,46,53,50,37>>, <<43,48,46,52,51,37>>),  \* "1.52%" "+0.43%"
    Language(14, 24, <<65,100,97>>,  \* "Ada"
             <<49,46,52,57,37>>, <<43,48,46,55,55,37>>),  \* "1.49%" "+0.77%"
    Language(15, 7, <<71,111>>,  \* "Go"
             <<49,46,51,55,37>>, <<45,48,46,56,48,37>>),  \* "1.37%" "-0.80%"
    Language(16, 12, <<80,72,80>>,  \* "PHP"
             <<49,46,51,54,37>>, <<45,48,46,48,51,37>>),  \* "1.36%" "-0.03%"
    Language(17, 14, <<82,117,115,116>>,  \* "Rust"
             <<49,46,51,48,37>>, <<43,48,46,48,49,37>>),  \* "1.30%" "+0.01%"
    Language(18, 13, <<83,99,114,97,116,99,104>>,  \* "Scratch"
             <<49,46,49,49,37>>, <<45,48,46,50,51,37>>),  \* "1.11%" "-0.23%"
    Language(19, 17, <<65,115,115,101,109,98,108,121,32,108,97,110,103,117,97,103,101>>,  \* "Assembly language"
             <<49,46,48,52,37>>, <<45,48,46,48,49,37>>),  \* "1.04%" "-0.01%"
    Language(20, 23, <<75,111,116,108,105,110>>,  \* "Kotlin"
             <<48,46,57,50,37>>, <<43,48,46,49,48,37>>)  \* "0.92%" "+0.10%"
  >>

\* The arms of the match of lines 149-255, each with the patterns that select it.
MatchArms ==
  {
    [patterns |-> {<<112,121,116,104,111,110>>},  \* "python"
     description |-> "description@151",
     use_cases |-> <<"item@152.1", "item@152.2", "item@152.3", "item@152.4", "item@152.5">>,
     frameworks |-> <<"Django", "Flask", "FastAPI", "PyTorch", "TensorFlow", "Pandas">>],
    [patterns |-> {<<99>>},  \* "c"
     description |-> "description@156",
     use_cases |-> <<"item@157.1", "item@157.2", "item@157.3", "item@157.4", "item@157.5">>,
     frameworks |-> <<"Linux Kernel", "SQLite", "Git", "Nginx">>],
    [patterns |-> {<<99,43,43>>},  \* "c++"
     description |-> "description@161",
     use_cases |-> <<"item@162.1", "item@162.2", "item@162.3", "item@162.4", "item@162.5">>,
     frameworks |-> <<"Qt", "Boost", "Unreal Engine", "OpenCV">>],
    [patterns |-> {<<106,97,118,97>>},  \* "java"
     description |-> "description@166",
     use_cases |-> <<"item@167.1", "item@167.2", "item@167.3", "item@167.4", "item@167.5">>,
     frameworks |-> <<"Spring", "Hibernate", "Maven", "Gradle", "Apache Kafka">>],
    [patterns |-> {<<99,35>>},  \* "c#"
     description |-> "description@171",
     use_cases |-> <<"item@172.1", "item@172.2", "item@172.3", "item@172.4", "item@172.5">>,
     frameworks |-> <<".NET Core", "ASP.NET", "Unity", "Xamarin", "Entity Framework">>],
    [patterns |-> {<<106,97,118,97,115,99,114,105,112,116>>},  \* "javascript"
     description |-> "description@176",
     use_cases |-> <<"item@177.1", "item@177.2", "item@177.3", "item@177.4", "item@177.5">>,
     frameworks |-> <<"React", "Vue.js", "Angular", "Node.js", "Express", "Next.js">>],
    [patterns |-> {<<103,111>>},  \* "go"
     description |-> "description@181",
     use_cases |-> <<"item@182.1", "item@182.2", "item@182.3", "item@182.4", "item@182.5">>,
     frameworks |-> <<"Gin", "Echo", "Kubernetes", "Docker", "Prometheus">>],
    [patterns |-> {<<114,117,115,116>>},  \* "rust"
     description |-> "description@186",
     use_cases |-> <<"item@187.1", "WebAssembly", "item@187.3", "item@187.4", "item@187.5">>,
     frameworks |-> <<"Actix", "Rocket", "Tokio", "Axum", "Diesel">>],
    [patterns |-> {<<112,104,112>>},  \* "php"
     description |-> "description@191",
     use_cases |-> <<"item@192.1", "item@192.2", "item@192.3", "item@192.4", "item@192.5">>,
     frameworks |-> <<"Laravel", "Symfony", "WordPress", "Drupal", "Magento">>],
    [patterns |-> {<<114>>},  \* "r"
     description |-> "description@196",
     use_cases |-> <<"item@197.1", "item@197.2", "item@197.3", "item@197.4", "item@197.5">>,
     frameworks |-> <<"ggplot2", "dplyr", "tidyr", "Shiny", "caret">>],
    [patterns |-> {<<115,113,108>>},  \* "sql"
     description |-> "description@201",
     use_cases |-> <<"item@202.1", "item@202.2", "item@202.3", "item@202.4", "ETL">>,
     frameworks |-> <<"MySQL", "PostgreSQL", "Oracle", "SQL Server", "SQLite">>],
    [patterns |-> {<<107,111,116,108,105,110>>},  \* "kotlin"
     description |-> "description@206",
     use_cases |-> <<"item@207.1", "item@207.2", "item@207.3", "item@207.4">>,
     frameworks |-> <<"Ktor", "Spring Boot", "Jetpack Compose", "Exposed">>],
    [patterns |-> {<<118,105,115,117,97,108,32,98,97,115,105,99>>},  \* "visual basic"
     description |-> "description@211",
     use_cases |-> <<"item@212.1", "item@212.2", "item@212.3", "item@212.4">>,
     frameworks |-> <<"VB.NET", "VBA", "Visual Studio">>],
    [patterns |-> {<<112,101,114,108>>},  \* "perl"
     description |-> "description@216",
     use_cases |-> <<"item@217.1", "item@217.2", "item@217.3", "item@217.4", "item@217.5">>,
     frameworks |-> <<"Mojolicious", "Dancer", "Catalyst", "CPAN">>],
    [patterns |-> {<<100,101,108,112,104,105,47,111,98,106,101,99,116,32,112,97,115,99,97,108>>, <<100,101,108,112,104,105>>},  \* "delphi/object pascal" "delphi"
     description |-> "description@221",
     use_cases |-> <<"item@222.1", "item@222.2", "item@222.3", "item@222.4">>,
     frameworks |-> <<"FireMonkey", "VCL", "RAD Studio">>],
    [patterns |-> {<<102,111,114,116,114,97,110>>},  \* "fortran"
     description |-> "description@226",
     use_cases |-> <<"item@227.1", "item@227.2", "item@227.3", "item@227.4", "item@227.5">>,
     frameworks |-> <<"LAPACK", "BLAS", "OpenMP", "MPI">>],
    [patterns |-> {<<109,97,116,108,97,98>>},  \* "matlab"
     description |-> "description@231",
     use_cases |-> <<"item@232.1", "item@232.2", "item@232.3", "item@232.4", "item@232.5">>,
     frameworks |-> <<"Simulink", "Image Processing Toolbox", "Deep Learning Toolbox">>],
    [patterns |-> {<<97,100,97>>},  \* "ada"
     description |-> "description@236",
     use_cases |-> <<"item@237.1", "item@237.2", "item@237.3", "item@237.4", "item@237.5">>,
     frameworks |-> <<"GNAT", "SPARK", "Ada Web Server">>],
    [patterns |-> {<<97,115,115,101,109,98,108,121,32,108,97,110,103,117,97,103,101>>, <<97,115,115,101,109,98,108,121>>},  \* "assembly language" "assembly"
     description |-> "description@241",
     use_cases |-> <<"item@242.1", "item@242.2", "item@242.3", "item@242.4", "item@242.5">>,
     frameworks |-> <<"NASM", "MASM", "GAS">>],
    [patterns |-> {<<115,99,114,97,116,99,104>>},  \* "scratch"
     description |-> "description@246",
     use_cases |-> <<"item@247.1", "item@247.2", "item@247.3", "item@247.4">>,
     frameworks |-> <<"Scratch 3.0", "ScratchJr">>]
  }

WildcardArm ==
  [patterns |-> {},
   description |-> "description@251",
   use_cases |-> <<"item@252.1">>,
   frameworks |-> <<"item@253.1">>]

\* The match of get_language_detail: the arm whose pattern is the key, or the
\* wildcard arm.
match_arm(key) ==
  IF \E arm \in MatchArms : key \in arm.patterns
  THEN CHOOSE arm \in MatchArms : key \in arm.patterns
  ELSE WildcardArm

----------------------------------------------------------------------------
(* fetch_tiobe_data *)

\* The test of line 67 without its month clause.
IsFutureYearOnly(y, m, clock) == y > clock[1]

\* The test of line 67 with the day of the month read in place of the month.
IsFutureByDay(y, m, clock) ==
  y > clock[1] \/ (y = clock[1] /\ m > clock[3])

\* The test of line 67, with current_year = now.year() (line 64) and
\* current_month = now.month() (line 65).
IsFuture(y, m, clock) ==
  y > clock[1] \/ (y = clock[1] /\ m > clock[2])

\* The URL of lines 60-73.
BuildUrl(year, month) ==
  IF year # None /\ month # None
  THEN <<"tiobe-index/?page=index", year[1], month[1]>>
  ELSE <<"tiobe-index/">>

\* The minimum number of td cells of a row that is read (line 92).
MinCells == 5

\* The test of line 103 with rank 0 let through.
KeepRowRankNotNegative(name, rank) == name # <<>> /\ rank >= 0

\* The test of line 103.
KeepRow(name, rank) == name # <<>> /\ rank > 0

\* An insertion at the front in place of the push of line 104.
PushFront(v, x) == <<x>> \o v

\* languages.push of line 104.
Push(v, x) == Append(v, x)

\* The body of the loop of lines 90-113 for one row: cells is the text of
\* each td of the row, in order.
VisitRow(acc, cells) ==
  IF Len(cells) >= MinCells
  THEN LET rank      == parse_or_zero(cells[1])
           prev_rank == parse_or_zero(cells[2])
           name      == trim(cells[4])
           rating    == trim(cells[5])
           change    == IF Len(cells) > 5 THEN trim(cells[6]) ELSE NotAvailable
       IN  IF KeepRow(name, rank)
           THEN Push(acc, Language(rank, prev_rank, name, rating, change))
           ELSE acc
  ELSE acc

\* The loop of lines 88-113 over the rows that "table#top20 tbody tr"
\* selects, in document order.
RECURSIVE ParseRowsFrom(_, _)
ParseRowsFrom(acc, rows) ==
  IF rows = <<>> THEN acc
  ELSE ParseRowsFrom(VisitRow(acc, Head(rows)), Tail(rows))

ParseRows(rows) == ParseRowsFrom(<<>>, rows)

\* fetch_tiobe_data(year, month), with the clock it reads and the outcome of
\* the one GET it may issue given as arguments.  ok is Ok/Err, languages
\* the Ok value, sent the URLs requested and parsed the vector of line 88
\* when the loop has run.
fetch_tiobe_data(year, month, clock, outcome) ==
  IF year # None /\ month # None /\ IsFuture(year[1], month[1], clock)
  THEN [ok |-> FALSE, languages |-> <<>>, sent |-> <<>>, parsed |-> <<>>]
  ELSE LET url == BuildUrl(year, month)
       IN  IF outcome.kind \in {"send_error", "text_error"}
           THEN [ok |-> FALSE, languages |-> <<>>, sent |-> <<url>>,
                 parsed |-> <<>>]
           ELSE LET found == ParseRows(outcome.rows)
                IN  [ok |-> TRUE,
                     languages |-> IF found = <<>> THEN get_fallback_data
                                   ELSE found,
                     sent |-> <<url>>, parsed |-> found]

----------------------------------------------------------------------------
(* The handlers *)

\* get_language_detail without the to_lowercase of line 149.
get_language_detail_exact(name, lang) ==
  LET arm == match_arm(name)
  IN  [name |-> lang.name, rank |-> lang.rank, rating |-> lang.rating,
       description |-> arm.description, use_cases |-> arm.use_cases,
       frameworks |-> arm.frameworks]

\* get_language_detail with the name trimmed before the match.
get_language_detail_trimmed(name, lang) ==
  LET arm == match_arm(to_lowercase(trim(name)))
  IN  [name |-> lang.name, rank |-> lang.rank, rating |-> lang.rating,
       description |-> arm.description, use_cases |-> arm.use_cases,
       frameworks |-> arm.frameworks]

\* get_language_detail (lines 148-265)
get_language_detail(name, lang) ==
  LET arm == match_arm(to_lowercase(name))
  IN  [name |-> lang.name, rank |-> lang.rank, rating |-> lang.rating,
       description |-> arm.description, use_cases |-> arm.use_cases,
       frameworks |-> arm.frameworks]

\* The match of lines 276-279 with an empty list in the Err arm.
get_languages_empty_on_err(result) ==
  IF result.ok THEN result.languages ELSE <<>>

\* The match of lines 276-279: the body of get_languages' reply.
get_languages(result) ==
  IF result.ok THEN result.languages ELSE get_fallback_data

\* unwrap_or_else(|_| get_fallback_data()) of lines 298-300.
unwrap_or_fallback(result) ==
  IF result.ok THEN result.languages ELSE get_fallback_data

\* The find of line 302 comparing the names as they are.
RECURSIVE find_case_sensitive(_, _)
find_case_sensitive(list, name) ==
  IF list = <<>> THEN <<>>
  ELSE IF Head(list).name = name THEN <<Head(list)>>
  ELSE find_case_sensitive(Tail(list), name)

\* languages.iter().find(...) of line 302: the first entry whose lowercased
\* name is the lowercased request name, as <<>> or <<entry>>.
RECURSIVE find(_, _)
find(list, name) ==
  IF list = <<>> THEN <<>>
  ELSE IF to_lowercase(Head(list).name) = to_lowercase(name)
       THEN <<Head(list)>>
       ELSE find(Tail(list), name)

\* default_lang of lines 305-311 with the name lowercased.
default_lang_lowercased(name) ==
  Language(0, 0, to_lowercase(name), NotAvailable, NotAvailable)

\* default_lang of lines 305-311.
default_lang(name) == Language(0, 0, name, NotAvailable, NotAvailable)

\* The reply of get_language_info (lines 302-313) for the list searched.
get_language_info(name, list) ==
  LET lang == find(list, name)
  IN  IF lang # <<>>
      THEN [status |-> 200, body |-> <<get_language_detail(name, lang[1])>>]
      ELSE [status |-> 200,
            body |-> <<get_language_detail(name, default_lang(name))>>]

----------------------------------------------------------------------------
(* The environment: clocks, requests and what the upstream delivers *)

\* The UTC dates the handlers may run at: two days of one month, the first
\* day of the next month.
Clocks == {<<2026, 11, 3>>, <<2026, 11, 30>>, <<2026, 12, 1>>}

\* c is a later date than d
Later(c, d) ==
  \/ c[1] > d[1]
  \/ c[1] = d[1] /\ c[2] > d[2]
  \/ c[1] = d[1] /\ c[2] = d[2] /\ c[3] > d[3]

\* struct DateQuery: no selector, a year alone, the current month, the next
\* month, and a later month number of an earlier year.
Selectors ==
  {[year |-> None,       month |-> None],
   [year |-> Some(2027), month |-> None],
   [year |-> Some(2026), month |-> Some(11)],
   [year |-> Some(2026), month |-> Some(12)],
   [year |-> Some(2025), month |-> Some(12)]}

\* Six cells: kept, with rank 1 and the change of cell 5.
RowPython ==
  <<<<49>>,  \* "1"
     <<50>>,  \* "2"
     <<105,109,103>>,  \* "img"
     <<112,121,116,104,111,110>>,  \* "python"
     <<32,50,49,46,56,49,37,32>>,  \* " 21.81% "
     <<43,49,46,48,48,37>>>>  \* "+1.00%"

\* Five cells, a padded rank and a previous rank that is no number: kept, with
\* rank 2, prev_rank 0 and change "N/A".
RowC ==
  <<<<32,50,32>>,  \* " 2 "
     <<120>>,  \* "x"
     <<>>,
     <<67>>,  \* "C"
     <<49,48,46,49,49,37>>>>  \* "10.11%"

\* Four cells.
RowShort ==
  <<<<51>>,  \* "3"
     <<51>>,  \* "3"
     <<>>,
     <<74,97,118,97>>>>  \* "Java"

\* A rank that is no number.
RowNoRank ==
  <<<<35,52>>,  \* "#4"
     <<52>>,  \* "4"
     <<>>,
     <<71,111>>,  \* "Go"
     <<49,46,51,55,37>>>>  \* "1.37%"

\* A name of whitespace only.
RowNoName ==
  <<<<53>>,  \* "5"
     <<53>>,  \* "5"
     <<82,117,115,116>>,  \* "Rust"
     <<32>>,  \* " "
     <<49,46,51,48,37>>>>  \* "1.30%"

\* Rank 0.
RowZero ==
  <<<<48>>,  \* "0"
     <<49>>,  \* "1"
     <<>>,
     <<80,72,80>>,  \* "PHP"
     <<49,46,51,54,37>>>>  \* "1.36%"

\* A negative rank.
RowNegative ==
  <<<<45,54>>,  \* "-6"
     <<54>>,  \* "6"
     <<>>,
     <<83,81,76>>,  \* "SQL"
     <<50,46,49,48,37>>>>  \* "2.10%"

\* A rank one above i32::MAX.
RowOverflow ==
  <<<<50,49,52,55,52,56,51,54,52,56>>,  \* "2147483648"
     <<55>>,  \* "7"
     <<>>,
     <<65,100,97>>,  \* "Ada"
     <<49,46,52,57,37>>>>  \* "1.49%"

\* A rank with a plus sign: kept, with rank 3.
RowPlus ==
  <<<<43,51>>,  \* "+3"
     <<51>>,  \* "3"
     <<>>,
     <<82>>,  \* "R"
     <<49,46,57,54,37>>,  \* "1.96%"
     <<>>>>

NamePYTHON == <<80,89,84,72,79,78>>  \* "PYTHON"

Namepython == <<112,121,116,104,111,110>>  \* "python"

NamePython == <<80,121,116,104,111,110>>  \* "Python"

NamePaddedPython == <<32,80,121,116,104,111,110,32>>  \* " Python "

NameZig == <<90,105,103>>  \* "Zig"


Rows == {RowPython, RowC, RowShort, RowNoRank, RowNoName, RowZero,
         RowNegative, RowOverflow, RowPlus}

\* The row sequences of n rows, and of at most MaxRows rows.
RECURSIVE TablesOfLength(_)
TablesOfLength(n) ==
  IF n = 0 THEN {<<>>}
  ELSE {Append(t, r) : t \in TablesOfLength(n - 1), r \in Rows}

Tables == UNION {TablesOfLength(n) : n \in 0..MaxRows}

\* What one GET can end in: send() fails, text() fails, or a response of
\* some status whose body holds some table rows.
Failures ==
  {[kind |-> k, status |-> 0, rows |-> <<>>] : k \in {"send_error", "text_error"}}

Response(s, t) == [kind |-> "response", status |-> s, rows |-> t]

\* Every outcome over every table of at most MaxRows rows.
Pages ==
  Failures \cup {Response(s, t) : s \in {200, 500}, t \in Tables}

\* The outcomes of the runs in which requests follow one another: a
\* failure, a page without the table, a page with one language, a page with
\* another, and a page whose two rows are in descending rank.
Upstreams ==
  {[kind |-> "send_error", status |-> 0, rows |-> <<>>],
   Response(200, <<>>), Response(200, <<RowPython>>), Response(200, <<RowC>>),
   Response(200, <<RowC, RowPython>>)}

NoUpstream == [kind |-> "none", status |-> 0, rows |-> <<>>]

Names == {NamePYTHON, Namepython, NamePython, NamePaddedPython, NameZig}

----------------------------------------------------------------------------
(* The state machine *)

Init ==
  /\ now \in Clocks
  /\ req = [op |-> "none", name |-> <<>>, year |-> None, month |-> None]
  /\ at = now
  /\ upstream = NoUpstream
  /\ sent = <<>>
  /\ fetched = FALSE
  /\ parsed = <<>>
  /\ languages = <<>>
  /\ status = 0
  /\ detail = <<>>
  /\ pair = "none"

\* Time passes.
Tick ==
  /\ \E c \in Clocks : Later(c, now) /\ now' = c
  /\ UNCHANGED <<req, at, upstream, sent, fetched, parsed, languages, status,
                 detail, pair>>

\* get_languages (lines 275-280) for one request and one upstream outcome.
\* pair is "rankings_twice" when the request before was the same request
\* for the ranking list and met the same upstream outcome.
HandleLanguages(year, month, outcome) ==
  LET result == fetch_tiobe_data(year, month, now, outcome)
  IN  /\ req' = [op |-> "languages", name |-> <<>>, year |-> year, month |-> month]
      /\ at' = now
      /\ upstream' = outcome
      /\ sent' = result.sent
      /\ fetched' = result.ok
      /\ parsed' = result.parsed
      /\ languages' = get_languages(result)
      /\ status' = 200
      /\ detail' = <<>>
      /\ pair' = IF /\ req.op = "languages"
                    /\ req.year = year /\ req.month = month
                    /\ upstream = outcome
                 THEN "rankings_twice" ELSE "none"
      /\ UNCHANGED now

\* get_language_info (lines 294-314) for one request and one upstream
\* outcome.  pair is "respelled" when the request before asked for the same
\* name in another letter case and was served the same list.
HandleLanguageInfo(name, year, month, outcome) ==
  LET result == fetch_tiobe_data(year, month, now, outcome)
      list   == unwrap_or_fallback(result)
      reply  == get_language_info(name, list)
  IN  /\ req' = [op |-> "info", name |-> name, year |-> year, month |-> month]
      /\ at' = now
      /\ upstream' = outcome
      /\ sent' = result.sent
      /\ fetched' = result.ok
      /\ parsed' = result.parsed
      /\ languages' = list
      /\ status' = reply.status
      /\ detail' = reply.body
      /\ pair' = IF /\ req.op = "info"
                    /\ req.name # name
                    /\ to_lowercase(req.name) = to_lowercase(name)
                    /\ languages = list
                 THEN "respelled" ELSE "none"
      /\ UNCHANGED now

GetLanguages ==
  \E sel \in Selectors, outcome \in Upstreams :
    HandleLanguages(sel.year, sel.month, outcome)

GetLanguageInfo ==
  \E name \in Names, sel \in Selectors, outcome \in Upstreams :
    HandleLanguageInfo(name, sel.year, sel.month, outcome)

Next == Tick \/ GetLanguages \/ GetLanguageInfo

Spec == Init /\ [][Next]_vars

\* One request for the ranking list, answered with any outcome over any
\* table of at most MaxRows rows.
ServePage ==
  /\ req.op = "none"
  /\ \E sel \in Selectors, outcome \in Pages :
       HandleLanguages(sel.year, sel.month, outcome)

NextPages == ServePage

SpecPages == Init /\ [][NextPages]_vars

----------------------------------------------------------------------------
(* The properties *)

\* The requested period is strictly later than the (year, month) the handler
\* read from the clock.
RequestedFuture ==
  /\ req.year # None
  /\ req.month # None
  /\ \/ req.year[1] > at[1]
     \/ req.year[1] = at[1] /\ req.month[1] > at[2]

TransportFailed == upstream.kind \in {"send_error", "text_error"}

EqualIgnoringCase(a, b) == to_lowercase(a) = to_lowercase(b)

\* The ranks of a list are pairwise distinct and in ascending order.
AscendingRanks(list) ==
  \A i, j \in 1..Len(list) : i < j => list[i].rank < list[j].rank

\* The description, use cases and frameworks of a detail record or of an arm.
RegistryFields(r) == <<r.description, r.use_cases, r.frameworks>>

RegistryKeys == UNION {arm.patterns : arm \in MatchArms}

\* The indices of the rows of a table that the claims say are kept.
KeptRows(rows) ==
  {i \in 1..Len(rows) :
     /\ Len(rows[i]) >= 5
     /\ trim(rows[i][4]) # <<>>
     /\ parse_or_zero(rows[i][1]) > 0}

\* The ranks of the kept rows of a table, in the order of the rows.
RECURSIVE KeptRanks(_, _)
KeptRanks(rows, i) ==
  IF i > Len(rows) THEN <<>>
  ELSE IF i \in KeptRows(rows)
       THEN <<[rank |-> parse_or_zero(rows[i][1])]>> \o KeptRanks(rows, i + 1)
       ELSE KeptRanks(rows, i + 1)

\* C1: a reply of get_languages is never an error and is either exactly the
\* parser's sequence or exactly the 20-entry fallback list: the fallback
\* when the period is rejected as future, when the transport fails or when
\* the parser's sequence is empty, and the parser's sequence otherwise.
C1_FallbackOrParsed ==
  req.op = "languages" =>
    /\ status = 200
    /\ Len(get_fallback_data) = 20
    /\ RequestedFuture \/ TransportFailed => parsed = <<>>
    /\ ~(RequestedFuture \/ TransportFailed) => parsed = ParseRows(upstream.rows)
    /\ languages = IF RequestedFuture \/ TransportFailed \/ parsed = <<>>
                   THEN get_fallback_data
                   ELSE parsed

\* C1's case: the page had rows, the parser kept none of them, and the
\* fallback list was served.
C1_Witness ==
  /\ req.op = "languages"
  /\ fetched
  /\ upstream.rows # <<>>
  /\ parsed = <<>>
  /\ languages = get_fallback_data

\* C2: a request for the ranking list whose year and month are both given
\* and name a period later than the current UTC (year, month) is rejected
\* before any GET is issued, and the reply is exactly the fallback list.
C2_FutureNeverLive ==
  req.op = "languages" /\ RequestedFuture =>
    /\ sent = <<>>
    /\ ~fetched
    /\ languages = get_fallback_data

\* C2's case: December 2026 requested in November 2026 while the upstream
\* had a page with a language to offer.
C2_Witness ==
  /\ req.op = "languages"
  /\ RequestedFuture
  /\ at[2] = 11
  /\ upstream = Response(200, <<RowPython>>)
  /\ languages = get_fallback_data

PythonSpellings == {NamePYTHON, Namepython, NamePython}

HasPython(list) ==
  \E i \in 1..Len(list) : EqualIgnoringCase(list[i].name, Namepython)

\* Two requests for a language's detail, one after the other, both for a
\* spelling of Python and both served the same ranking list.
TwoPythonRequests ==
  /\ req.op = "info" /\ req'.op = "info"
  /\ req.name \in PythonSpellings /\ req'.name \in PythonSpellings
  /\ languages' = languages

\* C3 as stated: over every ranking list that can be served, the requests
\* for "PYTHON", "python" and "Python" get detail records equal in every
\* field.
C3_Original == [][TwoPythonRequests => detail' = detail]_vars

\* C3 as amended: the three spellings get records equal in rank, rating,
\* description, use cases and frameworks; the names are equal too when the
\* served list has an entry named Python in some letter case (the fallback
\* list has one), and otherwise each record's name is the spelling that was
\* requested.
C3_SpellingsAgree ==
  [][TwoPythonRequests =>
       LET d == detail[1]
           e == detail'[1]
       IN  /\ d.rank = e.rank
           /\ d.rating = e.rating
           /\ RegistryFields(d) = RegistryFields(e)
           /\ HasPython(languages) => d.name = e.name
           /\ ~HasPython(languages) => d.name = req.name /\ e.name = req'.name
    ]_vars

\* C3's case: "PYTHON" requested right after another spelling, both served
\* the same parsed list whose entry is named "python".
C3_Witness ==
  /\ pair = "respelled"
  /\ req.name = NamePYTHON
  /\ fetched /\ languages = parsed /\ HasPython(languages)
  /\ detail[1].name = Namepython
  /\ detail[1].rank = 1

C5_FallbackEntryDetail ==
  req.op = "info" /\ languages = get_fallback_data =>
    \A i \in 1..Len(get_fallback_data) :
      LET entry == get_fallback_data[i]
      IN  EqualIgnoringCase(entry.name, req.name) =>
            /\ Len(detail) = 1
            /\ DOMAIN detail[1] = {"name", "rank", "rating", "description",
                                   "use_cases", "frameworks"}
            /\ detail[1].name = entry.name
            /\ detail[1].rank = entry.rank
            /\ detail[1].rating = entry.rating
            /\ \E arm \in MatchArms :
                 /\ to_lowercase(entry.name) \in arm.patterns
                 /\ RegistryFields(detail[1]) = RegistryFields(arm)

\* C5's case: "PYTHON" requested while the upstream was unreachable.
C5_Witness ==
  /\ req.op = "info"
  /\ req.name = NamePYTHON
  /\ ~fetched /\ sent # <<>>
  /\ languages = get_fallback_data
  /\ detail[1].rank = 1
  /\ detail[1].rating = get_fallback_data[1].rating

\* Two requests for the ranking list, one after the other, with the same
\* selector and the same upstream outcome.
SameRankingsRequest ==
  /\ req.op = "languages" /\ req'.op = "languages"
  /\ req'.year = req.year /\ req'.month = req.month
  /\ upstream' = upstream

\* C6 as stated: the two requests get equal lists.
C6_Original == [][SameRankingsRequest => languages' = languages]_vars

\* C6 as amended: the two requests get equal lists when the current UTC
\* (year, month) is the same at both; the clock is the one state a call
\* reads, and a period that was future at the first call may be current at
\* the second.
C6_SameMonthSameResult ==
  [][SameRankingsRequest /\ at'[1] = at[1] /\ at'[2] = at[2]
       => languages' = languages]_vars

\* C6's case: the same request for the current month made again on a later
\* day of that month, with the same page upstream, and the parsed list
\* served.
C6_Witness ==
  /\ pair = "rankings_twice"
  /\ req.year = Some(2026) /\ req.month = Some(11)
  /\ at = <<2026, 11, 30>>
  /\ fetched /\ parsed # <<>> /\ languages = parsed

\* C7 as stated: every list that get_languages returns has pairwise
\* distinct ranks in ascending order.
C7_Original == req.op = "languages" => AscendingRanks(languages)

\* C7 as amended: every list that get_languages returns has ranks above 0
\* and is in the order of the source: the fallback list has pairwise distinct
\* ascending ranks, and a parsed list has them exactly when the kept rows of
\* the table do, since the rows are neither sorted nor deduplicated.
C7_OrderOfSource ==
  req.op = "languages" =>
    /\ \A i \in 1..Len(languages) : languages[i].rank > 0
    /\ languages = get_fallback_data => AscendingRanks(languages)
    /\ languages # get_fallback_data =>
         /\ [i \in 1..Len(languages) |-> [rank |-> languages[i].rank]]
              = KeptRanks(upstream.rows, 1)
         /\ AscendingRanks(languages) <=> AscendingRanks(KeptRanks(upstream.rows, 1))

\* C7's case: a page whose two kept rows are in descending rank, served as
\* parsed.
C7_Witness ==
  /\ req.op = "languages"
  /\ fetched
  /\ Len(parsed) = 2
  /\ languages = parsed
  /\ languages[1].rank > languages[2].rank

\* C8: a response of non-success status is a failed retrieval: its body is
\* not parsed into the reply, which is the fallback list.
C8_NonSuccessIsFailure ==
  /\ req.op = "languages"
  /\ sent # <<>>
  /\ upstream.kind = "response"
  /\ ~(upstream.status >= 200 /\ upstream.status <= 299)
  => /\ ~fetched
     /\ parsed = <<>>
     /\ languages = get_fallback_data

\* The trimmed text is a decimal integer: an optional sign and digits.
IsDecimal(text) ==
  LET t == trim(text)
      digits == IF t # <<>> /\ Head(t) \in {43, 45} THEN Tail(t) ELSE t
  IN  /\ digits # <<>>
      /\ \A i \in 1..Len(digits) : digits[i] >= 48 /\ digits[i] <= 57

\* C9: the parser's sequence is the subsequence, in row order and with no
\* row moved or dropped as a duplicate, of the rows with at least 5 cells, a
\* non-empty trimmed name in cell 3 and a rank in cell 0 that parses to more
\* than 0, a rank that is no number parsing to 0; every other row is
\* skipped.
C9_ParserSubsequence ==
  req.op = "languages" /\ fetched =>
    LET rows == upstream.rows
        kept == KeptRows(rows)
    IN  /\ Len(parsed) = Cardinality(kept)
        /\ \A i \in kept :
             LET k == Cardinality({j \in kept : j <= i})
             IN  /\ parsed[k].rank = parse_or_zero(rows[i][1])
                 /\ parsed[k].prev_rank = parse_or_zero(rows[i][2])
                 /\ parsed[k].name = trim(rows[i][4])
                 /\ parsed[k].rating = trim(rows[i][5])
                 /\ parsed[k].change = IF Len(rows[i]) > 5 THEN trim(rows[i][6])
                                       ELSE NotAvailable
        /\ \A i \in 1..Len(rows) :
             Len(rows[i]) >= 5 /\ ~IsDecimal(rows[i][1]) =>
               parse_or_zero(rows[i][1]) = 0 /\ i \notin kept

\* C9's case: a row of four cells is skipped and the row after it is kept.
C9_Witness ==
  /\ req.op = "languages"
  /\ fetched
  /\ upstream.rows = <<RowShort, RowPlus>>
  /\ Len(parsed) = 1
  /\ parsed[1].rank = 3

====
